---- MODULE Spec2Model ----
(***************************************************************************)
(* prometheus-nginxlog-exporter, main.go: the startup sequence of main,    *)
(* the shutdown goroutine, setupConsul, processNamespace / Metrics.Init    *)
(* and the per-file ingestion loop processSourceFile.                      *)
(***************************************************************************)
EXTENDS Bags, FiniteSets, Integers, Sequences, TLC

(***************************************************************************)
(* Bound of the model.                                                     *)
(***************************************************************************)
\* lines the follower of the first namespace's first file delivers at most;
\* the follower of every other file delivers at most one line
MaxLines == 2

(***************************************************************************)
(* Collaborators outside main.go, modelled from their contract.            *)
(***************************************************************************)
\* value of a field the parsed record does not hold
Absent == "<absent>"

FieldNames == {"status", "body_bytes_sent", "upstream_response_time", "request_time"}

NoFields == [f \in FieldNames |-> Absent]

\* the texts a follower may deliver
LineTexts == {"garbage", "full", "bare", "notfound"}

\* gonx.Parser.ParseString: the record of named fields of a line, or an error
ParseString(text) ==
    CASE text = "full" ->
           [err |-> FALSE,
            fields |-> [NoFields EXCEPT !["status"] = "200",
                                        !["body_bytes_sent"] = "5",
                                        !["upstream_response_time"] = "1",
                                        !["request_time"] = "2"]]
      [] text = "bare" ->
           [err |-> FALSE,
            fields |-> [NoFields EXCEPT !["body_bytes_sent"] = "x",
                                        !["request_time"] = "2"]]
      [] text = "notfound" ->
           [err |-> FALSE,
            fields |-> [NoFields EXCEPT !["status"] = "404",
                                        !["upstream_response_time"] = "-",
                                        !["request_time"] = "fast"]]
      [] OTHER -> [err |-> TRUE, fields |-> NoFields]

\* gonx.Entry.Field: the field's text, or an error when the record lacks it
Field(fields, name) ==
    IF fields[name] = Absent
    THEN [err |-> TRUE, val |-> ""]
    ELSE [err |-> FALSE, val |-> fields[name]]

\* strconv.ParseFloat on the texts of this model
ParseFloat(s) ==
    CASE s = "1" -> [err |-> FALSE, num |-> 1]
      [] s = "2" -> [err |-> FALSE, num |-> 2]
      [] s = "5" -> [err |-> FALSE, num |-> 5]
      [] OTHER -> [err |-> TRUE, num |-> 0]

\* gonx.Entry.FloatField: Field, then ParseFloat
FloatField(fields, name) ==
    LET f == Field(fields, name)
    IN  IF f.err THEN [err |-> TRUE, num |-> 0] ELSE ParseFloat(f.val)

\* relabeling.Relabeling.Map: identity copy, or pattern match with a
\* replacement; a pattern that does not match yields an error
Map(r, str) ==
    IF r.kind = "copy" THEN [err |-> FALSE, val |-> str]
    ELSE IF str = r.pat THEN [err |-> FALSE, val |-> r.repl]
    ELSE [err |-> TRUE, val |-> ""]

Rule(target, source, kind, pat, repl) ==
    [TargetLabel |-> target, SourceValue |-> source, kind |-> kind,
     pat |-> pat, repl |-> repl]

\* relabeling.DefaultRelabelings: the built-in rules, evaluated first
DefaultRelabelings == << Rule("status", "status", "copy", "", "") >>

\* capacity of the slice DefaultRelabelings: it is written as a slice literal,
\* which has no room beyond its elements
DefaultCap == Len(DefaultRelabelings)

\* relabeling.NewRelabelings: one rule per RelabelConfig, in declared order
NewRelabelings(relabelConfigs) == relabelConfigs

\* user rules of the configurations below
RuleClass == Rule("class", "status", "match", "200", "ok")
RuleTime == Rule("time", "request_time", "copy", "", "")
RuleDup == Rule("status", "request_time", "copy", "", "")


(***************************************************************************)
(* Configurations (config.Config, config.NamespaceConfig, StartupFlags).   *)
(***************************************************************************)
Namespace(name, files, names, values, rules) ==
    [Name |-> name, SourceFiles |-> files, OrderedLabelNames |-> names,
     OrderedLabelValues |-> values, RelabelConfigs |-> rules]

EmptyNs == Namespace("", << >>, << >>, << >>, << >>)

NsWeb == Namespace("web", <<"access1", "access2">>, <<"app">>, <<"shop">>, <<RuleClass>>)
NsApi == Namespace("api", <<"api1">>, << >>, << >>, <<RuleTime>>)
NsOne == Namespace("one", <<"access1">>, <<"app">>, <<"shop">>, <<RuleClass>>)
NsDup == Namespace("dup", <<"access1">>, << >>, << >>, <<RuleDup>>)

Config(namespaces, consul, unstable) ==
    [Namespaces |-> namespaces, Consul |-> consul, Unstable |-> unstable]

EmptyCfg == Config(<< >>, FALSE, FALSE)

\* the configurations loadConfig may produce
Configs ==
    { Config(<<NsWeb>>, FALSE, FALSE),
      Config(<<NsOne, NsApi>>, FALSE, FALSE),
      Config(<<NsOne>>, TRUE, FALSE),
      Config(<<NsDup>>, FALSE, FALSE),
      Config(<<NsApi>>, TRUE, TRUE) }

StartupFlags(cpu, mem, experimental) ==
    [CPUProfile |-> cpu, MemProfile |-> mem, EnableExperimentalFeatures |-> experimental]

\* the command lines the process may be started with
FlagSets ==
    { StartupFlags(FALSE, FALSE, FALSE),
      StartupFlags(TRUE, FALSE, TRUE) }

Profilers == {"cpu", "mem"}

MaxOf(S) == IF S = {} THEN 0 ELSE CHOOSE x \in S : \A y \in S : y <= x

AllNamespaces == UNION { { c.Namespaces[i] : i \in 1 .. Len(c.Namespaces) } : c \in Configs }

\* processNamespace goroutines, and processSourceFile goroutines (namespace, file)
NsIds == 1 .. MaxOf({ Len(c.Namespaces) : c \in Configs })
FileIds == 1 .. MaxOf({ Len(ns.SourceFiles) : ns \in AllNamespaces })
LoopIds == NsIds \X FileIds

\* lines the follower of loop l delivers at most
LineBudget(l) == IF l = << 1, 1 >> THEN MaxLines ELSE 1

\* the seven metrics of a namespace, in the order Init registers them
MetricNames ==
    << "countTotal", "bytesTotal", "upstreamSeconds", "upstreamSecondsHist",
       "responseSeconds", "responseSecondsHist", "parseErrorsTotal" >>

EmptyMetrics ==
    [countTotal |-> EmptyBag, bytesTotal |-> EmptyBag,
     upstreamSeconds |-> EmptyBag, upstreamSecondsHist |-> EmptyBag,
     responseSeconds |-> EmptyBag, responseSecondsHist |-> EmptyBag,
     parseErrorsTotal |-> 0]

(***************************************************************************)
(* State.                                                                  *)
(***************************************************************************)
VARIABLES
    opts,         \* the parsed startup flags
    cfg,          \* the loaded configuration
    mainPc,       \* position of main
    nsIdx,        \* next namespace main starts a processor for
    sigChan,      \* signals buffered in sigChan (capacity 1)
    shPc,         \* position of the shutdown goroutine
    stopChan,     \* TRUE once stopChan is closed
    wg,           \* counter of the stopHandlers wait group
    consulPc,     \* position of the Consul deregistration goroutine
    consulReg,    \* what Consul knows of this service
    profPc,       \* position of each profiler's flush goroutine
    exitCode,     \* -1 while the process runs, else its exit code
    exitCause,    \* how the process ended
    nsPc,         \* position of each processNamespace goroutine
    fileIdx,      \* next source file of each processNamespace
    nsCfg,        \* the NamespaceConfig each processNamespace was given
    labels,       \* the label schema Init built for each namespace
    registered,   \* TRUE once Init has registered the namespace's metrics
    registry,     \* prometheus default registry: registered metric names
    metrics,      \* the Metrics of each namespace
    loopPc,       \* position of each processSourceFile goroutine
    relabelings,  \* the rule list of each loop
    labelValues,  \* the label vector of each loop
    entry,        \* the parsed record of each loop's current line
    hist,         \* the lines each loop has received so far
    follower      \* the follower of each loop: "none", "open", "closed", "failed"

mainVars == << opts, cfg, mainPc, nsIdx >>
shutVars == << sigChan, shPc, stopChan, wg >>
auxVars == << consulPc, consulReg, profPc >>
exitVars == << exitCode, exitCause >>
nsVars == << nsPc, fileIdx, nsCfg, labels, registered, registry >>
loopVars == << loopPc, relabelings, labelValues, entry, hist, follower >>
vars == << mainVars, shutVars, auxVars, exitVars, nsVars, metrics, loopVars >>

Running == exitCode = -1

\* os.Exit(code), or main returning
Halt(code, cause) == exitCode' = code /\ exitCause' = cause

\* an unrecovered panic ends the process with exit code 2
Panic(cause) == Halt(2, cause)

Init ==
    /\ opts \in FlagSets
    /\ cfg = EmptyCfg
    /\ mainPc = "go_shutdown"
    /\ nsIdx = 1
    /\ sigChan = 0
    /\ shPc = "none"
    /\ stopChan = FALSE
    /\ wg = 0
    /\ consulPc = "none"
    /\ consulReg = "none"
    /\ profPc = [p \in Profilers |-> "none"]
    /\ exitCode = -1
    /\ exitCause = "none"
    /\ nsPc = [n \in NsIds |-> "none"]
    /\ fileIdx = [n \in NsIds |-> 1]
    /\ nsCfg = [n \in NsIds |-> EmptyNs]
    /\ labels = [n \in NsIds |-> << >>]
    /\ registered = [n \in NsIds |-> FALSE]
    /\ registry = {}
    /\ metrics = [n \in NsIds |-> EmptyMetrics]
    /\ loopPc = [l \in LoopIds |-> "none"]
    /\ relabelings = [l \in LoopIds |-> << >>]
    /\ labelValues = [l \in LoopIds |-> << >>]
    /\ entry = [l \in LoopIds |-> NoFields]
    /\ hist = [l \in LoopIds |-> << >>]
    /\ follower = [l \in LoopIds |-> "none"]

(***************************************************************************)
(* main and the shutdown coordinator.                                      *)
(***************************************************************************)
\* the environment delivers SIGINT or SIGTERM; signal.Notify does not block
Signal ==
    /\ Running
    /\ sigChan = 0
    /\ shPc \in {"none", "recv"}
    /\ sigChan' = 1
    /\ UNCHANGED << mainVars, shPc, stopChan, wg, auxVars, exitVars, nsVars, metrics, loopVars >>

\* main: go func() { ... }()
GoShutdown ==
    /\ Running
    /\ mainPc = "go_shutdown"
    /\ mainPc' = "cpuprof"
    /\ shPc' = "recv"
    /\ UNCHANGED << opts, cfg, nsIdx, sigChan, stopChan, wg, auxVars, exitVars, nsVars, metrics, loopVars >>

\* shutdown goroutine: sig := <-sigChan; close(stopChan)
ShutdownClose ==
    /\ Running
    /\ shPc = "recv"
    /\ sigChan = 1
    /\ sigChan' = 0
    /\ stopChan' = TRUE
    /\ shPc' = "wait"
    /\ UNCHANGED << mainVars, wg, auxVars, exitVars, nsVars, metrics, loopVars >>

\* a Wait that also waits until no loop is in the middle of a line
ExitReadyLoopsJoined ==
    /\ wg = 0
    /\ \A l \in LoopIds : loopPc[l] \in {"none", "setup", "recv", "stopped"}

\* stopHandlers.Wait() returns once the counter is zero; the loops are not
\* counted in
ExitReady == wg = 0

\* shutdown goroutine: stopHandlers.Wait(); os.Exit(0)
ShutdownExit ==
    /\ Running
    /\ shPc = "wait"
    /\ ExitReady
    /\ shPc' = "exited"
    /\ Halt(0, "shutdown")
    /\ UNCHANGED << mainVars, sigChan, stopChan, wg, auxVars, nsVars, metrics, loopVars >>

ProfEnabled(p) == IF p = "cpu" THEN opts.CPUProfile ELSE opts.MemProfile

\* prof.SetupCPUProfiling / prof.SetupMemoryProfiling: with a profile file
\* given, count the flush task in and start it
SetupProfiling(p) ==
    /\ Running
    /\ mainPc = (IF p = "cpu" THEN "cpuprof" ELSE "memprof")
    /\ mainPc' = IF p = "cpu" THEN "memprof" ELSE "loadConfig"
    /\ IF ProfEnabled(p)
       THEN /\ wg' = wg + 1
            /\ profPc' = [profPc EXCEPT ![p] = "wait"]
       ELSE UNCHANGED << wg, profPc >>
    /\ UNCHANGED << opts, cfg, nsIdx, sigChan, shPc, stopChan, consulPc, consulReg, exitVars, nsVars, metrics, loopVars >>

\* flush goroutine: <-stopChan; write the profile
ProfFlush(p) ==
    /\ Running
    /\ profPc[p] = "wait"
    /\ stopChan
    /\ profPc' = [profPc EXCEPT ![p] = "flushed"]
    /\ UNCHANGED << mainVars, shutVars, consulPc, consulReg, exitVars, nsVars, metrics, loopVars >>

\* flush goroutine: stopHandlers.Done()
ProfDone(p) ==
    /\ Running
    /\ profPc[p] = "flushed"
    /\ profPc' = [profPc EXCEPT ![p] = "finished"]
    /\ wg' = wg - 1
    /\ UNCHANGED << mainVars, sigChan, shPc, stopChan, consulPc, consulReg, exitVars, nsVars, metrics, loopVars >>

\* loadConfig: panics when the configuration cannot be loaded
LoadConfig ==
    /\ Running
    /\ mainPc = "loadConfig"
    /\ \/ /\ Panic("load_config")
          /\ UNCHANGED << cfg, mainPc >>
       \/ /\ cfg' \in Configs
          /\ mainPc' = "stability"
          /\ UNCHANGED exitVars
    /\ UNCHANGED << opts, nsIdx, shutVars, auxVars, nsVars, metrics, loopVars >>

\* a check that lets every configuration pass
StabilityErrorIgnored == FALSE

\* stabilityError != nil && !opts.EnableExperimentalFeatures
StabilityError == cfg.Unstable /\ ~opts.EnableExperimentalFeatures

\* main: cfg.StabilityWarnings() without -enable-experimental: os.Exit(1)
StabilityCheck ==
    /\ Running
    /\ mainPc = "stability"
    /\ IF StabilityError
       THEN /\ Halt(1, "experimental")
            /\ UNCHANGED mainPc
       ELSE /\ mainPc' = IF cfg.Consul THEN "consul_register" ELSE "namespaces"
            /\ UNCHANGED exitVars
    /\ UNCHANGED << opts, cfg, nsIdx, shutVars, auxVars, nsVars, metrics, loopVars >>


(***************************************************************************)
(* setupConsul.                                                            *)
(***************************************************************************)
\* setupConsul: NewConsulRegistrator and RegisterConsul, panic on an error
ConsulRegister ==
    /\ Running
    /\ mainPc = "consul_register"
    /\ \/ /\ Panic("consul_register")
          /\ UNCHANGED << mainPc, consulReg >>
       \/ /\ consulReg' = "registered"
          /\ mainPc' = "consul_go"
          /\ UNCHANGED exitVars
    /\ UNCHANGED << opts, cfg, nsIdx, shutVars, consulPc, profPc, nsVars, metrics, loopVars >>

\* setupConsul: go func() { <-stopChan; ... }()
ConsulGo ==
    /\ Running
    /\ mainPc = "consul_go"
    /\ consulPc' = "wait"
    /\ mainPc' = "consul_add"
    /\ UNCHANGED << opts, cfg, nsIdx, shutVars, consulReg, profPc, exitVars, nsVars, metrics, loopVars >>

\* setupConsul: stopHandlers.Add(1), after the goroutine was started
ConsulAdd ==
    /\ Running
    /\ mainPc = "consul_add"
    /\ wg' = wg + 1
    /\ mainPc' = "namespaces"
    /\ UNCHANGED << opts, cfg, nsIdx, sigChan, shPc, stopChan, auxVars, exitVars, nsVars, metrics, loopVars >>

\* deregistration goroutine: <-stopChan; registrator.UnregisterConsul()
ConsulUnregister ==
    /\ Running
    /\ consulPc = "wait"
    /\ stopChan
    /\ consulReg' = "unregistered"
    /\ consulPc' = "done"
    /\ UNCHANGED << mainVars, shutVars, profPc, exitVars, nsVars, metrics, loopVars >>

\* deregistration goroutine: stopHandlers.Done(); sync.WaitGroup panics when
\* its counter becomes negative
ConsulDone ==
    /\ Running
    /\ consulPc = "done"
    /\ consulPc' = "finished"
    /\ wg' = wg - 1
    /\ IF wg = 0 THEN Panic("negative_waitgroup") ELSE UNCHANGED exitVars
    /\ UNCHANGED << mainVars, sigChan, shPc, stopChan, consulReg, profPc, nsVars, metrics, loopVars >>

(***************************************************************************)
(* main: the namespace processors and the scrape endpoint.                 *)
(***************************************************************************)
\* a processNamespace that starts its loops without running Init
NsEntryWithoutInit == "files"

\* first step of processNamespace: Init comes before the loop over the files
NsEntry == "compile"

\* main: go processNamespace(ns), the configuration passed by value
StartNamespace ==
    /\ Running
    /\ mainPc = "namespaces"
    /\ nsIdx <= Len(cfg.Namespaces)
    /\ nsPc' = [nsPc EXCEPT ![nsIdx] = NsEntry]
    /\ nsCfg' = [nsCfg EXCEPT ![nsIdx] = cfg.Namespaces[nsIdx]]
    /\ nsIdx' = nsIdx + 1
    /\ UNCHANGED << opts, cfg, mainPc, shutVars, auxVars, exitVars, fileIdx, labels, registered,
                    registry, metrics, loopVars >>

\* main: http.ListenAndServe blocks while it serves; when it cannot listen it
\* returns, its error is dropped, main returns and the process ends with 0
Listen ==
    /\ Running
    /\ mainPc = "namespaces"
    /\ nsIdx > Len(cfg.Namespaces)
    /\ \/ /\ mainPc' = "serving"
          /\ UNCHANGED exitVars
       \/ /\ mainPc' = "returned"
          /\ Halt(0, "main_return")
    /\ UNCHANGED << opts, cfg, nsIdx, shutVars, auxVars, nsVars, metrics, loopVars >>


(***************************************************************************)
(* Metrics.Init and processNamespace.                                      *)
(***************************************************************************)
Targets(rules) == [i \in 1 .. Len(rules) |-> rules[i].TargetLabel]

HasDuplicates(seq) == \E i, j \in 1 .. Len(seq) : i < j /\ seq[i] = seq[j]

\* a schema that leaves out the targets of the default rules
LabelSchemaNoDefaults(ns) == ns.OrderedLabelNames \o Targets(ns.RelabelConfigs)

\* Init: labels := OrderedLabelNames, then the targets of the default rules,
\* then the targets of the namespace's own rules
LabelSchema(ns) ==
    ns.OrderedLabelNames \o Targets(DefaultRelabelings) \o Targets(ns.RelabelConfigs)

\* cfg.MustCompile: a label name that occurs twice is a compile error
CompileError(ns) == HasDuplicates(LabelSchema(ns))

\* the names Init registers for a namespace
MetricKeys(ns) == { << ns.Name, MetricNames[i] >> : i \in 1 .. Len(MetricNames) }

\* an Init whose compile step lets a duplicated label name pass
CompileUnchecked(n) ==
    /\ Running
    /\ nsPc[n] = "compile"
    /\ nsPc' = [nsPc EXCEPT ![n] = "construct"]
    /\ UNCHANGED << mainVars, shutVars, auxVars, exitVars, fileIdx, nsCfg, labels, registered,
                    registry, metrics, loopVars >>

\* processNamespace: NewParser, metrics := Metrics{}, Init: cfg.MustCompile()
Compile(n) ==
    /\ Running
    /\ nsPc[n] = "compile"
    /\ IF CompileError(nsCfg[n])
       THEN /\ Panic("compile")
            /\ UNCHANGED nsPc
       ELSE /\ nsPc' = [nsPc EXCEPT ![n] = "construct"]
            /\ UNCHANGED exitVars
    /\ UNCHANGED << mainVars, shutVars, auxVars, fileIdx, nsCfg, labels, registered, registry,
                    metrics, loopVars >>

\* Init: build the label schema and construct the seven metrics over it
Construct(n) ==
    /\ Running
    /\ nsPc[n] = "construct"
    /\ labels' = [labels EXCEPT ![n] = LabelSchema(nsCfg[n])]
    /\ metrics' = [metrics EXCEPT ![n] = EmptyMetrics]
    /\ nsPc' = [nsPc EXCEPT ![n] = "register"]
    /\ UNCHANGED << mainVars, shutVars, auxVars, exitVars, fileIdx, nsCfg, registered, registry,
                    loopVars >>

\* Init: prometheus.MustRegister of the seven metrics; it panics when a name
\* is registered already or a metric's label names are not distinct
Register(n) ==
    /\ Running
    /\ nsPc[n] = "register"
    /\ IF MetricKeys(nsCfg[n]) \cap registry # {} \/ HasDuplicates(labels[n])
       THEN /\ Panic("register")
            /\ UNCHANGED << nsPc, registered, registry >>
       ELSE /\ registry' = registry \cup MetricKeys(nsCfg[n])
            /\ registered' = [registered EXCEPT ![n] = TRUE]
            /\ nsPc' = [nsPc EXCEPT ![n] =
                          IF Len(nsCfg[n].SourceFiles) = 0 THEN "done" ELSE "files"]
            /\ UNCHANGED exitVars
    /\ UNCHANGED << mainVars, shutVars, auxVars, fileIdx, nsCfg, labels, metrics, loopVars >>

\* position of processNamespace after it started the loop of file f
AfterFile(n, f) == IF f < Len(nsCfg[n].SourceFiles) THEN "files" ELSE "done"

\* processNamespace: tail.NewFollower(f), panic on an error; t.OnError;
\* go processSourceFile(nsCfg, t, parser, &metrics)
StartFile(n) ==
    /\ Running
    /\ nsPc[n] = "files"
    /\ LET l == << n, fileIdx[n] >>
       IN  \/ /\ follower' = [follower EXCEPT ![l] = "failed"]
              /\ Panic("follower_init")
              /\ UNCHANGED << nsPc, fileIdx, loopPc >>
           \/ /\ follower' = [follower EXCEPT ![l] = "open"]
              /\ loopPc' = [loopPc EXCEPT ![l] = "setup"]
              /\ fileIdx' = [fileIdx EXCEPT ![n] = @ + 1]
              /\ nsPc' = [nsPc EXCEPT ![n] = AfterFile(n, fileIdx[n])]
              /\ UNCHANGED exitVars
    /\ UNCHANGED << mainVars, shutVars, auxVars, nsCfg, labels, registered, registry, metrics,
                    relabelings, labelValues, entry, hist >>

\* a callback that only logs the follower's error
OnErrorLogged == UNCHANGED exitVars

\* the callback given to t.OnError: panic(err)
OnError == Panic("follower_error")

\* instead of its next line a follower reports a terminal error, which goes
\* to the callback
FollowerError(l) ==
    /\ Running
    /\ follower[l] = "open"
    /\ loopPc[l] = "recv"
    /\ follower' = [follower EXCEPT ![l] = "failed"]
    /\ OnError
    /\ UNCHANGED << mainVars, shutVars, auxVars, nsVars, metrics, loopPc, relabelings,
                    labelValues, entry, hist >>

(***************************************************************************)
(* processSourceFile.                                                      *)
(***************************************************************************)
\* relabelings = append(DefaultRelabelings, NewRelabelings(RelabelConfigs)...)
RelabelingsOf(ns) == DefaultRelabelings \o NewRelabelings(ns.RelabelConfigs)

\* a vector whose static positions are left empty
InitialLabelValuesBlank(staticLabelValues, rels) ==
    [i \in 1 .. Len(staticLabelValues) + Len(rels) |-> ""]

\* labelValues := make([]string, totalLabelCount), the static values copied
\* to its first positions
InitialLabelValues(staticLabelValues, rels) ==
    staticLabelValues \o [i \in 1 .. Len(rels) |-> ""]

\* a rule that writes position i, the offset of the static labels left out
ApplyRuleNoOffset(lv, fields, rels, offset, i) ==
    LET f == Field(fields, rels[i].SourceValue)
        m == Map(rels[i], f.val)
    IN  IF ~f.err /\ ~m.err THEN [lv EXCEPT ![i] = m.val] ELSE lv

\* one iteration of `for i := range relabelings`: the rule writes its own
\* position when its source field is there and its mapping succeeds
ApplyRule(lv, fields, rels, offset, i) ==
    LET f == Field(fields, rels[i].SourceValue)
        m == Map(rels[i], f.val)
    IN  IF ~f.err /\ ~m.err THEN [lv EXCEPT ![i + offset] = m.val] ELSE lv

RECURSIVE ApplyFrom(_, _, _, _, _)
ApplyFrom(lv, fields, rels, offset, i) ==
    IF i > Len(rels) THEN lv
    ELSE ApplyFrom(ApplyRule(lv, fields, rels, offset, i), fields, rels, offset, i + 1)

\* the relabeling loop of one line, over the vector the loop already holds
ApplyRelabelings(lv, fields, rels, offset) == ApplyFrom(lv, fields, rels, offset, 1)

\* append(a, b...) returns a slice of a's own backing array, with b written
\* behind a's elements, when b is not empty and fits a's capacity; otherwise
\* it copies a and b to a new array
AppendsInPlace(a, cap, b) == Len(b) > 0 /\ Len(a) + Len(b) <= cap

\* the rule list of loop l is a slice of the backing array of DefaultRelabelings
SharesDefaults(l) ==
    /\ loopPc[l] \notin {"none", "setup"}
    /\ AppendsInPlace(DefaultRelabelings, DefaultCap,
                      SubSeq(relabelings[l], Len(DefaultRelabelings) + 1, Len(relabelings[l])))

\* a slice of an array after the elements of `new` were written to the
\* array's first positions
Overwritten(old, new) == [j \in 1 .. Len(old) |-> IF j <= Len(new) THEN new[j] ELSE old[j]]

\* one Metrics for the loops of all namespaces
MetricsOfFirst(l) == 1

\* the Metrics a loop updates: the local of the processNamespace that started
\* it, passed as &metrics
MetricsOf(l) == l[1]

\* one label vector for all loops of a namespace
SharedVector(l) == << l[1], 1 >>

\* the label vector a loop works on: its own local slice
OwnVector(l) == l

\* processSourceFile up to its for loop
LoopSetup(l) ==
    /\ Running
    /\ loopPc[l] = "setup"
    /\ LET ns == nsCfg[l[1]]
           own == NewRelabelings(ns.RelabelConfigs)
           rels == RelabelingsOf(ns)
       IN  /\ relabelings' =
                  [l2 \in LoopIds |->
                      IF l2 = l THEN rels
                      ELSE IF AppendsInPlace(DefaultRelabelings, DefaultCap, own)
                              /\ SharesDefaults(l2)
                           THEN Overwritten(relabelings[l2], rels)
                           ELSE relabelings[l2]]
           /\ labelValues' = [labelValues EXCEPT ![OwnVector(l)] =
                                InitialLabelValues(ns.OrderedLabelValues, rels)]
    /\ loopPc' = [loopPc EXCEPT ![l] = "recv"]
    /\ UNCHANGED << mainVars, shutVars, auxVars, exitVars, nsVars, metrics, entry, hist, follower >>

\* a loop whose parse-error branch lacks its continue
AfterParseErrorFallsThrough == "count"

\* position of the loop after a line that could not be parsed: continue
AfterParseError == "recv"

\* for line := range t.Lines(): parse the line; on an error count it and go
\* on, else run the relabeling rules
ReadLine(l, text) ==
    /\ Running
    /\ loopPc[l] = "recv"
    /\ Len(hist[l]) < LineBudget(l)
    /\ hist' = [hist EXCEPT ![l] = Append(@, text)]
    /\ LET parsed == ParseString(text)
           offset == Len(nsCfg[l[1]].OrderedLabelValues)
       IN  IF parsed.err
           THEN /\ metrics' = [metrics EXCEPT ![MetricsOf(l)].parseErrorsTotal = @ + 1]
                /\ loopPc' = [loopPc EXCEPT ![l] = AfterParseError]
                /\ UNCHANGED << entry, labelValues >>
           ELSE /\ entry' = [entry EXCEPT ![l] = parsed.fields]
                /\ labelValues' = [labelValues EXCEPT ![OwnVector(l)] =
                                     ApplyRelabelings(@, parsed.fields, relabelings[l], offset)]
                /\ loopPc' = [loopPc EXCEPT ![l] = "count"]
                /\ UNCHANGED metrics
    /\ UNCHANGED << mainVars, shutVars, auxVars, exitVars, nsVars, relabelings, follower >>

\* a loop that keeps waiting for lines of a closed source
AfterLinesClosedWaits == "recv"

\* position of the loop once t.Lines() is closed: the range loop ends and
\* processSourceFile returns
AfterLinesClosed == "stopped"

\* the channel of t.Lines() is closed: the for loop ends, the function returns
LinesClosed(l) ==
    /\ Running
    /\ loopPc[l] = "recv"
    /\ loopPc' = [loopPc EXCEPT ![l] = AfterLinesClosed]
    /\ follower' = [follower EXCEPT ![l] = "closed"]
    /\ UNCHANGED << mainVars, shutVars, auxVars, exitVars, nsVars, metrics, relabelings,
                    labelValues, entry, hist >>

\* metric.WithLabelValues(labelValues...) followed by Inc, Add or Observe: it
\* panics when the vector's length differs from the schema's
MetricUpdate(l, metric, elem, next) ==
    IF Len(labelValues[OwnVector(l)]) = Len(labels[MetricsOf(l)])
    THEN /\ metrics' = [metrics EXCEPT ![MetricsOf(l)][metric] = @ (+) SetToBag({elem})]
         /\ loopPc' = [loopPc EXCEPT ![l] = next]
         /\ UNCHANGED exitVars
    ELSE /\ Panic("label_cardinality")
         /\ UNCHANGED << metrics, loopPc >>

\* a missing field that ends the line instead of one observation
SkipRestOfLine(l, next) ==
    /\ loopPc' = [loopPc EXCEPT ![l] = "recv"]
    /\ UNCHANGED << metrics, exitVars >>

\* an observation whose field is missing or no number is left out
Skip(l, next) ==
    /\ loopPc' = [loopPc EXCEPT ![l] = next]
    /\ UNCHANGED << metrics, exitVars >>

LoopFrame ==
    UNCHANGED << mainVars, shutVars, auxVars, nsVars, relabelings, labelValues, entry, hist, follower >>

\* metrics.countTotal.WithLabelValues(labelValues...).Inc()
Count(l) ==
    /\ Running
    /\ loopPc[l] = "count"
    /\ MetricUpdate(l, "countTotal", labelValues[OwnVector(l)], "bytes")
    /\ LoopFrame

\* bytesTotal.Add(bytes) when body_bytes_sent is a number
Bytes(l) ==
    /\ Running
    /\ loopPc[l] = "bytes"
    /\ LET v == FloatField(entry[l], "body_bytes_sent")
       IN  IF ~v.err
           THEN MetricUpdate(l, "bytesTotal", << labelValues[OwnVector(l)], v.num >>, "upstream")
           ELSE Skip(l, "upstream")
    /\ LoopFrame

\* an upstream time observed by the summary only
AfterUpstreamSummaryAlone == "response"

\* the statement after upstreamSeconds...Observe: the histogram's Observe, in
\* the same if block
AfterUpstreamSummary == "upstreamHist"

\* upstreamSeconds.Observe(upstreamTime) when upstream_response_time is a number
Upstream(l) ==
    /\ Running
    /\ loopPc[l] = "upstream"
    /\ LET v == FloatField(entry[l], "upstream_response_time")
       IN  IF ~v.err
           THEN MetricUpdate(l, "upstreamSeconds", << labelValues[OwnVector(l)], v.num >>,
                             AfterUpstreamSummary)
           ELSE Skip(l, "response")
    /\ LoopFrame

\* upstreamSecondsHist.Observe(upstreamTime)
UpstreamHist(l) ==
    /\ Running
    /\ loopPc[l] = "upstreamHist"
    /\ LET v == FloatField(entry[l], "upstream_response_time")
       IN  MetricUpdate(l, "upstreamSecondsHist", << labelValues[OwnVector(l)], v.num >>,
                        "response")
    /\ LoopFrame

\* responseSeconds.Observe(responseTime) when request_time is a number
Response(l) ==
    /\ Running
    /\ loopPc[l] = "response"
    /\ LET v == FloatField(entry[l], "request_time")
       IN  IF ~v.err
           THEN MetricUpdate(l, "responseSeconds", << labelValues[OwnVector(l)], v.num >>,
                             "responseHist")
           ELSE Skip(l, "recv")
    /\ LoopFrame

\* responseSecondsHist.Observe(responseTime)
ResponseHist(l) ==
    /\ Running
    /\ loopPc[l] = "responseHist"
    /\ LET v == FloatField(entry[l], "request_time")
       IN  MetricUpdate(l, "responseSecondsHist", << labelValues[OwnVector(l)], v.num >>,
                        "recv")
    /\ LoopFrame

(***************************************************************************)
(* The process.                                                            *)
(***************************************************************************)
Next ==
    \/ Signal
    \/ GoShutdown
    \/ ShutdownClose
    \/ ShutdownExit
    \/ \E p \in Profilers : SetupProfiling(p)
    \/ \E p \in Profilers : ProfFlush(p)
    \/ \E p \in Profilers : ProfDone(p)
    \/ LoadConfig
    \/ StabilityCheck
    \/ ConsulRegister
    \/ ConsulGo
    \/ ConsulAdd
    \/ ConsulUnregister
    \/ ConsulDone
    \/ StartNamespace
    \/ Listen
    \/ \E n \in NsIds : Compile(n)
    \/ \E n \in NsIds : Construct(n)
    \/ \E n \in NsIds : Register(n)
    \/ \E n \in NsIds : StartFile(n)
    \/ \E l \in LoopIds : FollowerError(l)
    \/ \E l \in LoopIds : LoopSetup(l)
    \/ \E l \in LoopIds, text \in LineTexts : ReadLine(l, text)
    \/ \E l \in LoopIds : LinesClosed(l)
    \/ \E l \in LoopIds : Count(l)
    \/ \E l \in LoopIds : Bytes(l)
    \/ \E l \in LoopIds : Upstream(l)
    \/ \E l \in LoopIds : UpstreamHist(l)
    \/ \E l \in LoopIds : Response(l)
    \/ \E l \in LoopIds : ResponseHist(l)

Spec == Init /\ [][Next]_vars


(***************************************************************************)
(* Reference values: what one loop computes from its own lines alone.      *)
(***************************************************************************)
\* ParseString of every text a follower may deliver
Parsed ==
    [garbage |-> ParseString("garbage"), full |-> ParseString("full"),
     bare |-> ParseString("bare"), notfound |-> ParseString("notfound")]

MidLine == {"count", "bytes", "upstream", "upstreamHist", "response", "responseHist"}

LoopsOf(n) == { l \in LoopIds : l[1] = n }

Rank(pc) ==
    CASE pc = "count" -> 1
      [] pc = "bytes" -> 2
      [] pc = "upstream" -> 3
      [] pc = "upstreamHist" -> 4
      [] pc = "response" -> 5
      [] pc = "responseHist" -> 6
      [] OTHER -> 7

StepRank(metric) ==
    CASE metric = "countTotal" -> 1
      [] metric = "bytesTotal" -> 2
      [] metric = "upstreamSeconds" -> 3
      [] metric = "upstreamSecondsHist" -> 4
      [] metric = "responseSeconds" -> 5
      [] metric = "responseSecondsHist" -> 6

FieldOf(metric) ==
    CASE metric = "bytesTotal" -> "body_bytes_sent"
      [] metric \in {"upstreamSeconds", "upstreamSecondsHist"} -> "upstream_response_time"
      [] metric \in {"responseSeconds", "responseSecondsHist"} -> "request_time"

\* a rule produces a value for a record
RuleFires(r, fields) ==
    /\ ~Field(fields, r.SourceValue).err
    /\ ~Map(r, Field(fields, r.SourceValue).val).err

\* the vector of a line evaluated from the defaults, over its own fields only
FreshVector(ns, fields) ==
    ApplyRelabelings(InitialLabelValues(ns.OrderedLabelValues, RelabelingsOf(ns)), fields,
                     RelabelingsOf(ns), Len(ns.OrderedLabelValues))

\* a loop run on its own over the first k of its lines: the vector it holds
\* then, and the vectors it has counted
RECURSIVE Replay(_, _, _)
Replay(ns, texts, k) ==
    IF k = 0
    THEN [vec |-> InitialLabelValues(ns.OrderedLabelValues, RelabelingsOf(ns)),
          bag |-> EmptyBag, last |-> FALSE]
    ELSE LET prev == Replay(ns, texts, k - 1)
             p == Parsed[texts[k]]
         IN  IF p.err THEN [prev EXCEPT !.last = FALSE]
             ELSE LET v == ApplyRelabelings(prev.vec, p.fields, RelabelingsOf(ns),
                                            Len(ns.OrderedLabelValues))
                  IN  [vec |-> v, bag |-> prev.bag (+) SetToBag({v}), last |-> TRUE]

\* the vectors counted in replay r by a loop at position pc: the vector of
\* its last line is not counted yet while the loop stands before its count
CountedIn(r, pc) ==
    IF pc = "count" /\ r.last THEN r.bag (-) SetToBag({r.vec}) ELSE r.bag

RECURSIVE SumBags(_, _)
SumBags(f, S) ==
    IF S = {} THEN EmptyBag
    ELSE LET x == CHOOSE y \in S : TRUE IN f[x] (+) SumBags(f, S \ {x})

\* whether the field each metric reads is a number in a record
NumericIn(fields) ==
    [countTotal |-> TRUE,
     bytesTotal |-> ~FloatField(fields, FieldOf("bytesTotal")).err,
     upstreamSeconds |-> ~FloatField(fields, FieldOf("upstreamSeconds")).err,
     upstreamSecondsHist |-> ~FloatField(fields, FieldOf("upstreamSecondsHist")).err,
     responseSeconds |-> ~FloatField(fields, FieldOf("responseSeconds")).err,
     responseSecondsHist |-> ~FloatField(fields, FieldOf("responseSecondsHist")).err]

\* the same for every text a follower may deliver
Numeric ==
    [garbage |-> NumericIn(Parsed.garbage.fields), full |-> NumericIn(Parsed.full.fields),
     bare |-> NumericIn(Parsed.bare.fields), notfound |-> NumericIn(Parsed.notfound.fields)]

\* lines of a loop at position pc that has received `texts`, for which the
\* update of `metric` is due and behind it
DueIn(texts, pc, metric) ==
    { k \in 1 .. Len(texts) :
        /\ ~Parsed[texts[k]].err
        /\ k < Len(texts) \/ Rank(pc) > StepRank(metric)
        /\ Numeric[texts[k]][metric] }

Due(l, metric) == DueIn(hist[l], loopPc[l], metric)

RECURSIVE SumOver(_, _)
SumOver(f, S) ==
    IF S = {} THEN 0
    ELSE LET x == CHOOSE y \in S : TRUE IN f[x] + SumOver(f, S \ {x})

\* the vectors loop l alone has counted
Counted(l) == CountedIn(Replay(nsCfg[l[1]], hist[l], Len(hist[l])), loopPc[l])

FailedLines(l) == { k \in 1 .. Len(hist[l]) : Parsed[hist[l][k]].err }

(***************************************************************************)
(* Claims.                                                                 *)
(***************************************************************************)
\* C1: while a loop updates the metrics of a line, every rule that produced a
\* value on the loop's previous line but produces none on this one has the
\* default (empty) value at its position of the label vector.
C1_NoStaleLabel ==
    \A l \in LoopIds :
        (loopPc[l] \in MidLine /\ Len(hist[l]) >= 2) =>
            LET prev == ParseString(hist[l][Len(hist[l]) - 1])
                offset == Len(nsCfg[l[1]].OrderedLabelValues)
            IN  \A i \in 1 .. Len(relabelings[l]) :
                    ( /\ ~prev.err
                      /\ RuleFires(relabelings[l][i], prev.fields)
                      /\ ~RuleFires(relabelings[l][i], entry[l]) )
                    => labelValues[l][i + offset] = ""

\* C2: the request counter of a namespace holds exactly one increment per
\* successfully extracted line, under the static label values followed by
\* the rules' output over that line's fields only.
C2_CountPerLine ==
    \A n \in NsIds :
        metrics[n].countTotal =
            SumBags([l \in LoopsOf(n) |->
                       SumBags([k \in Due(l, "countTotal") |->
                                  SetToBag({FreshVector(nsCfg[n],
                                                        ParseString(hist[l][k]).fields)})],
                               Due(l, "countTotal"))],
                    LoopsOf(n))

\* C3: a line whose extraction fails adds one to the namespace's parse-error
\* counter, changes no labeled metric, and leaves the loop waiting for the
\* next line.
C3_ParseFailure ==
    [][\A l \in LoopIds :
         (hist'[l] # hist[l] /\ ParseString(hist'[l][Len(hist'[l])]).err) =>
             /\ metrics' = [metrics EXCEPT ![l[1]].parseErrorsTotal = @ + 1]
             /\ loopPc'[l] = "recv"
             /\ Running']_vars

C3_Witness ==
    \E l \in LoopIds :
        /\ loopPc[l] = "recv"
        /\ Len(hist[l]) = 2
        /\ FailedLines(l) = {2}
        /\ metrics[l[1]].parseErrorsTotal = 1
        /\ metrics[l[1]].countTotal # EmptyBag

\* C4: whenever a loop holds a label vector, its length is the length of the
\* label schema Init built for the namespace, and no metric update fails on
\* the number of label values.
C4_VectorLength ==
    /\ \A l \in LoopIds :
           loopPc[l] \notin {"none", "setup"} =>
               Len(labelValues[l]) = Len(labels[l[1]])
    /\ exitCause # "label_cardinality"

C4_Witness ==
    \E l \in LoopIds :
        /\ loopPc[l] = "bytes"
        /\ Len(labelValues[l]) = 3
        /\ metrics[l[1]].countTotal # EmptyBag


AuxFinished ==
    /\ consulPc \in {"none", "finished"}
    /\ \A p \in Profilers : profPc[p] \in {"none", "finished"}

\* C5: when the process has exited through the shutdown goroutine, the stop
\* channel is closed and every auxiliary task that was started, the Consul
\* deregistration included, has run to its end.
C5_ExitAfterAuxTasks ==
    (exitCode = 0 /\ exitCause = "shutdown") => (stopChan /\ AuxFinished)

\* C6: the request counter of a namespace is the sum of what each of its
\* loops contributes when run on its own lines alone, the parse-error counter
\* is the number of failed lines of all its loops, and the label vector of a
\* loop is determined by that loop's lines alone.
C6_SumOfFiles ==
    \A n \in NsIds :
        LET alone == [l \in LoopsOf(n) |-> Replay(nsCfg[n], hist[l], Len(hist[l]))]
        IN  /\ metrics[n].countTotal =
                   SumBags([l \in LoopsOf(n) |-> CountedIn(alone[l], loopPc[l])], LoopsOf(n))
            /\ metrics[n].parseErrorsTotal =
                   SumOver([l \in LoopsOf(n) |-> Cardinality(FailedLines(l))], LoopsOf(n))
            /\ \A l \in LoopsOf(n) :
                   loopPc[l] \notin {"none", "setup"} => labelValues[l] = alone[l].vec

C6_Witness ==
    /\ loopPc[<< 1, 1 >>] \in MidLine
    /\ loopPc[<< 1, 2 >>] \in MidLine
    /\ Len(hist[<< 1, 1 >>]) = 2
    /\ \E v \in BagToSet(Counted(<< 1, 1 >>)) :
           /\ BagIn(v, Counted(<< 1, 2 >>))
           /\ CopiesIn(v, metrics[1].countTotal) >= 2

ObservationMetrics ==
    {"bytesTotal", "upstreamSeconds", "upstreamSecondsHist", "responseSeconds",
     "responseSecondsHist"}

\* C7: every successfully extracted line is counted once, and each of the
\* five observations is made once for exactly the lines whose own field is
\* there and is a number, whatever the line's other optional fields are.
C7_OptionalFields ==
    \A n \in NsIds :
        \A m \in ObservationMetrics \cup {"countTotal"} :
            BagCardinality(metrics[n][m]) =
                SumOver([l \in LoopsOf(n) |-> Cardinality(Due(l, m))], LoopsOf(n))

C7_Witness ==
    \E l \in LoopIds :
        /\ loopPc[l] = "recv"
        /\ hist[l] = << "bare" >>
        /\ \A l2 \in LoopsOf(l[1]) \ {l} : hist[l2] = << >>
        /\ BagCardinality(metrics[l[1]].countTotal) = 1
        /\ metrics[l[1]].bytesTotal = EmptyBag
        /\ metrics[l[1]].upstreamSeconds = EmptyBag
        /\ BagCardinality(metrics[l[1]].responseSeconds) = 1
        /\ BagCardinality(metrics[l[1]].responseSecondsHist) = 1

\* C8: once a follower could not be created or has reported a terminal
\* error the process has ended, and after the process has ended no loop
\* moves and no metric changes.
C8_FollowerFatal ==
    /\ [](\A l \in LoopIds : follower[l] = "failed" => ~Running)
    /\ [][~Running => UNCHANGED << metrics, loopPc, hist, labelValues >>]_vars

C8_Witness ==
    \E l, l2 \in LoopIds :
        /\ l # l2
        /\ follower[l] = "failed"
        /\ exitCause = "follower_error"
        /\ loopPc[l2] \in MidLine

\* C9: a namespace whose loop has been started has its schema compiled and
\* its seven metrics registered; metrics of a namespace that is not
\* registered have no update; a namespace that has not passed Init, be it
\* because Init was fatal, has no loop.
C9_InitBeforeLoops ==
    \A n \in NsIds :
        /\ \A l \in LoopsOf(n) :
               loopPc[l] # "none" =>
                   /\ registered[n]
                   /\ labels[n] = LabelSchema(nsCfg[n])
                   /\ MetricKeys(nsCfg[n]) \subseteq registry
        /\ metrics[n] # EmptyMetrics => registered[n]
        /\ nsPc[n] \in {"none", "compile", "construct", "register"} =>
               \A l \in LoopsOf(n) : loopPc[l] = "none"

C9_Witness ==
    \E n \in NsIds :
        /\ registered[n]
        /\ nsPc[n] = "done"
        /\ metrics[n].countTotal # EmptyBag
        /\ \A l \in LoopsOf(n) : loopPc[l] # "none"


\* the value rule r produces for a record on which it fires
Produced(r, fields) == Map(r, Field(fields, r.SourceValue).val).val

SharedTarget(rels) ==
    { ij \in (1 .. Len(rels)) \X (1 .. Len(rels)) :
        ij[1] < ij[2] /\ rels[ij[1]].TargetLabel = rels[ij[2]].TargetLabel }

\* C10 as stated: a namespace in which a later rule has the target of an
\* earlier one (a user rule that of a default rule) is accepted, and on a
\* line for which both produce a value every position of that label holds
\* the later rule's value.
C10_LastWriteWins ==
    \A n \in NsIds :
        \A ij \in SharedTarget(RelabelingsOf(nsCfg[n])) :
            /\ nsPc[n] # "none" => exitCause \notin {"compile", "register"}
            /\ \A l \in LoopsOf(n) :
                   ( /\ loopPc[l] \in MidLine
                     /\ RuleFires(relabelings[l][ij[1]], entry[l])
                     /\ RuleFires(relabelings[l][ij[2]], entry[l]) )
                   => \A k \in 1 .. Len(labels[n]) :
                          labels[n][k] = relabelings[l][ij[2]].TargetLabel =>
                              labelValues[l][k] = Produced(relabelings[l][ij[2]], entry[l])

\* C10 amended: a rule that produces a value for a line writes it to its own
\* position (static labels, then the rules in evaluation order), whatever the
\* other rules produce; no two rules of a running loop share a target, and a
\* namespace in which they do never has a loop.
C10_OwnPosition ==
    /\ \A l \in LoopIds :
           loopPc[l] \in MidLine =>
               /\ SharedTarget(relabelings[l]) = {}
               /\ \A i \in 1 .. Len(relabelings[l]) :
                      RuleFires(relabelings[l][i], entry[l]) =>
                          labelValues[l][i + Len(nsCfg[l[1]].OrderedLabelValues)] =
                              Produced(relabelings[l][i], entry[l])
    /\ \A n \in NsIds :
           SharedTarget(RelabelingsOf(nsCfg[n])) # {} =>
               \A l \in LoopsOf(n) : loopPc[l] = "none"

C10_Witness ==
    \E l \in LoopIds :
        /\ loopPc[l] \in MidLine
        /\ Len(relabelings[l]) = 2
        /\ relabelings[l][1].SourceValue = relabelings[l][2].SourceValue
        /\ RuleFires(relabelings[l][1], entry[l])
        /\ RuleFires(relabelings[l][2], entry[l])
        /\ labelValues[l] = << "shop", "200", "ok" >>

\* C11: the label schema of every namespace that has a loop holds each name
\* once, and a namespace whose static names and rule targets hold a name
\* twice stops in the compile step of Init: it builds no schema, registers
\* no metric and starts no loop.
C11_UniqueLabels ==
    \A n \in NsIds :
        /\ (\E l \in LoopsOf(n) : loopPc[l] # "none") =>
               /\ labels[n] = LabelSchema(nsCfg[n])
               /\ ~HasDuplicates(labels[n])
        /\ (nsPc[n] # "none" /\ HasDuplicates(LabelSchema(nsCfg[n]))) =>
               /\ nsPc[n] = "compile"
               /\ labels[n] = << >>
               /\ ~registered[n]
               /\ \A l \in LoopsOf(n) : loopPc[l] = "none" /\ follower[l] = "none"

C11_Witness ==
    \E n \in NsIds :
        /\ HasDuplicates(LabelSchema(nsCfg[n]))
        /\ nsPc[n] = "compile"
        /\ exitCode = 2
        /\ exitCause = "compile"

\* a step of loop l, or of the processNamespace that starts it
LoopStep(l) == loopPc'[l] # loopPc[l] \/ hist'[l] # hist[l]

\* C12: the rule list of every loop is the default rules followed by the
\* user rules of its own namespace, the schema of a namespace is built from
\* its own names only, and a step of a loop or of a namespace processor
\* changes no metric and no schema of another namespace and neither the rule
\* list nor the label vector of any other loop.
C12_Isolation ==
    /\ [](\A l \in LoopIds :
             loopPc[l] \notin {"none", "setup"} =>
                 relabelings[l] = DefaultRelabelings \o nsCfg[l[1]].RelabelConfigs)
    /\ [](\A n \in NsIds :
             registered[n] =>
                 labels[n] = nsCfg[n].OrderedLabelNames \o Targets(DefaultRelabelings)
                                 \o Targets(nsCfg[n].RelabelConfigs))
    /\ [][ /\ \A l \in LoopIds :
                 LoopStep(l) =>
                     /\ \A n \in NsIds \ {l[1]} :
                            metrics'[n] = metrics[n] /\ labels'[n] = labels[n]
                     /\ \A l2 \in LoopIds \ {l} :
                            /\ relabelings'[l2] = relabelings[l2]
                            /\ labelValues'[l2] = labelValues[l2]
           /\ \A n \in NsIds :
                 nsPc'[n] # nsPc[n] =>
                     /\ \A n2 \in NsIds \ {n} :
                            metrics'[n2] = metrics[n2] /\ labels'[n2] = labels[n2]
                     /\ relabelings' = relabelings ]_vars

C12_Witness ==
    /\ loopPc[<< 1, 1 >>] \in MidLine
    /\ loopPc[<< 2, 1 >>] \in MidLine
    /\ nsCfg[1] # nsCfg[2]
    /\ relabelings[<< 1, 1 >>] # relabelings[<< 2, 1 >>]
    /\ metrics[1].countTotal # EmptyBag
    /\ metrics[2].parseErrorsTotal = 0
    /\ Len(hist[<< 1, 1 >>]) = 2
    /\ FailedLines(<< 1, 1 >>) = {1}

\* C13: with a loaded configuration that uses an experimental option and
\* without the opt-in flag, main does not get past its stability check: the
\* service is not registered in Consul, no namespace processor and no loop
\* is started, no metric is registered or updated, and the exit of the check
\* has code 1.
C13_ExperimentalGate ==
    /\ (cfg.Unstable /\ ~opts.EnableExperimentalFeatures) =>
           /\ mainPc = "stability"
           /\ consulReg = "none" /\ consulPc = "none"
           /\ nsIdx = 1
           /\ \A n \in NsIds :
                  nsPc[n] = "none" /\ ~registered[n] /\ metrics[n] = EmptyMetrics
           /\ registry = {}
           /\ \A l \in LoopIds : loopPc[l] = "none" /\ follower[l] = "none"
           /\ exitCause \in {"none", "experimental", "shutdown"}
    /\ exitCause = "experimental" <=> exitCode = 1
    /\ exitCause = "experimental" => (cfg.Unstable /\ ~opts.EnableExperimentalFeatures)

C13_Witness ==
    /\ cfg.Unstable
    /\ cfg.Consul
    /\ Len(cfg.Namespaces) > 0
    /\ ~opts.EnableExperimentalFeatures
    /\ exitCode = 1
    /\ exitCause = "experimental"

\* C14: a process that has ended with exit code 0 has ended through the
\* shutdown goroutine, after a signal closed the stop channel; every other
\* end of the process, main returning from a failed ListenAndServe included,
\* has a non-zero exit code.
C14_ZeroOnlyOnShutdown ==
    /\ exitCode = 0 => (exitCause = "shutdown" /\ stopChan /\ shPc = "exited")
    /\ (~Running /\ exitCause # "shutdown") => exitCode > 0

\* C15: a loop whose line source has closed is stopped; the step that stops
\* it changes no metric, leaves the process running and moves no other loop;
\* a stopped loop stays stopped, receives no line and keeps its vector, and
\* a metric that changes afterwards is changed by a step of another loop.
C15_CleanStop ==
    /\ [](\A l \in LoopIds : follower[l] = "closed" => loopPc[l] = "stopped")
    /\ [][\A l \in LoopIds :
             /\ (loopPc[l] # "stopped" /\ loopPc'[l] = "stopped") =>
                    /\ loopPc[l] = "recv"
                    /\ follower'[l] = "closed"
                    /\ metrics' = metrics
                    /\ exitCode' = -1
                    /\ \A l2 \in LoopIds \ {l} :
                           loopPc'[l2] = loopPc[l2] /\ follower'[l2] = follower[l2]
             /\ loopPc[l] = "stopped" =>
                    /\ loopPc'[l] = "stopped"
                    /\ hist'[l] = hist[l]
                    /\ labelValues'[l] = labelValues[l]
                    /\ entry'[l] = entry[l]
                    /\ follower'[l] = "closed"
                    /\ metrics' # metrics => \E l2 \in LoopIds \ {l} : LoopStep(l2)]_vars

C15_Witness ==
    \E l, l2 \in LoopIds :
        /\ l # l2
        /\ l[1] = l2[1]
        /\ Running
        /\ loopPc[l] = "stopped"
        /\ follower[l] = "closed"
        /\ hist[l] = << >>
        /\ loopPc[l2] = "responseHist"
        /\ BagCardinality(metrics[l[1]].countTotal) = 1

\* C16: once the stop channel is closed and the wait group's counter is
\* zero, the exit of the shutdown goroutine can be taken whatever the
\* positions of the loops are, a loop in the middle of a line included.
C16_ExitIgnoresLoops ==
    (Running /\ shPc = "wait" /\ wg = 0) => ENABLED ShutdownExit

\* the process has exited with a line counted whose observations are missing
C16_Witness ==
    \E l \in LoopIds :
        /\ exitCode = 0
        /\ exitCause = "shutdown"
        /\ loopPc[l] = "bytes"
        /\ hist[l] = << "full" >>
        /\ \A l2 \in LoopsOf(l[1]) \ {l} : hist[l2] = << >>
        /\ BagCardinality(metrics[l[1]].countTotal) = 1
        /\ metrics[l[1]].bytesTotal = EmptyBag
        /\ metrics[l[1]].upstreamSeconds = EmptyBag
        /\ metrics[l[1]].responseSeconds = EmptyBag

\* loops of namespace n between the summary's and the histogram's Observe
Between(n, pc) == { l \in LoopsOf(n) : loopPc[l] = pc }

\* C17: in every namespace the summary and the histogram of the upstream
\* time, and those of the response time, hold the same observations (value
\* and label vector) whenever no loop of the namespace is in the middle of a
\* line; at any time the summary is ahead by one observation for each loop
\* that stands between the two Observe calls.
C17_SummaryWithHistogram ==
    \A n \in NsIds :
        /\ (\A l \in LoopsOf(n) : loopPc[l] \notin MidLine) =>
               /\ metrics[n].upstreamSeconds = metrics[n].upstreamSecondsHist
               /\ metrics[n].responseSeconds = metrics[n].responseSecondsHist
        /\ BagCardinality(metrics[n].upstreamSeconds) =
               BagCardinality(metrics[n].upstreamSecondsHist)
                 + Cardinality(Between(n, "upstreamHist"))
        /\ BagCardinality(metrics[n].responseSeconds) =
               BagCardinality(metrics[n].responseSecondsHist)
                 + Cardinality(Between(n, "responseHist"))

C17_Witness ==
    \E n \in NsIds :
        /\ \A l \in LoopsOf(n) : loopPc[l] \notin MidLine
        /\ hist[<< n, 1 >>] = << "full", "bare" >>
        /\ BagCardinality(metrics[n].upstreamSeconds) = 1
        /\ BagCardinality(metrics[n].upstreamSecondsHist) = 1
        /\ BagCardinality(metrics[n].responseSeconds) = 2
        /\ BagCardinality(metrics[n].responseSecondsHist) = 2

\* the static positions of a label vector
StaticPart(n, vec) == SubSeq(vec, 1, Len(nsCfg[n].OrderedLabelValues))

\* the label vectors under which a metric of namespace n has been updated
VectorsOf(n, metric) ==
    IF metric = "countTotal" THEN BagToSet(metrics[n][metric])
    ELSE { e[1] : e \in BagToSet(metrics[n][metric]) }

\* C18: from the end of its setup on, whatever lines a loop has processed,
\* the leading positions of its label vector hold the static label values of
\* its namespace, and every update of a labeled metric was made under a
\* vector with exactly these values in its leading positions.
C18_StaticLabelsKept ==
    /\ \A l \in LoopIds :
           loopPc[l] \notin {"none", "setup"} =>
               StaticPart(l[1], labelValues[l]) = nsCfg[l[1]].OrderedLabelValues
    /\ \A n \in NsIds :
           \A m \in ObservationMetrics \cup {"countTotal"} :
               \A v \in VectorsOf(n, m) :
                   StaticPart(n, v) = nsCfg[n].OrderedLabelValues

C18_Witness ==
    \E l \in LoopIds :
        /\ loopPc[l] = "recv"
        /\ hist[l] = << "full", "notfound" >>
        /\ nsCfg[l[1]].OrderedLabelValues = << "shop" >>
        /\ labelValues[l] = << "shop", "404", "ok" >>
        /\ VectorsOf(l[1], "countTotal") = { << "shop", "200", "ok" >>, << "shop", "404", "ok" >> }
        /\ VectorsOf(l[1], "bytesTotal") = { << "shop", "200", "ok" >> }

\* C19: the counter of stopHandlers is never negative, and when the Consul
\* deregistration goroutine has called Done, setupConsul has called its
\* Add(1) before.
C19_WaitGroupNonNegative ==
    /\ wg >= 0
    /\ exitCause # "negative_waitgroup"
    /\ consulPc = "finished" => mainPc \notin {"consul_go", "consul_add"}

====
